---------------------------- MODULE Spec2Model ----------------------------
(***************************************************************************)
(* Order lifecycle and inventory consistency of SiparisYonetimSistemi:     *)
(* Product stock, Order / OrderItem, OrderFactory.create_order and         *)
(* update_order_status, InventoryManager.update_stock, the shipping        *)
(* strategies and their selector.                                          *)
(*                                                                         *)
(* Money is counted in tenths of a TL, so that FastShipping's 10 percent   *)
(* discount (total_cost *= 0.9) stays an integer.  Times are whole hours.  *)
(* A null reference (None) is the empty sequence <<>>; a value v that may  *)
(* be null is <<v>>.                                                       *)
(***************************************************************************)
EXTENDS Integers, Sequences, FiniteSets

(* ------------------------------ bounds -------------------------------- *)
MaxStock == 2       \* stock counts range over 0..MaxStock
MaxQty == 2         \* requested quantities range over -1..MaxQty
MaxReq == 3         \* lines of one create_order request (single-call runs)
MaxLines == 2       \* lines of one create_order request (multi-call runs)
MaxOrders == 1      \* orders created in one run
MaxDelta == 2       \* update_stock deltas range over -MaxDelta..MaxDelta
MaxNow == 1         \* the clock runs over 0..MaxNow hours
MaxHistory == 2     \* orders created in one run of the history runs
MaxThreads == 2     \* threads calling Product.decrease_stock at once
MaxInstances == 2   \* InventoryManager objects constructed in one run

(* ----------------------------- universe ------------------------------- *)
\* main.py:29-30 seeds these two catalog entries (among others).
Products == {"P006", "P007"}
Tenths(tl) == tl * 10
CatalogPrice == [p \in Products |-> IF p = "P006" THEN Tenths(750) ELSE Tenths(800)]
\* Unit prices set through add_product / Product.price for the shipping runs.
ShippingPrices == {Tenths(250), Tenths(500), Tenths(1000)}
UnknownId == "P999"
Customers == {"C1234"}
\* A customer registered through the menu, next to the demo customer.
NewCustomer == "C0002"
AllCustomers == Customers \cup {NewCustomer}
Quantities == (0 - 1) .. MaxQty
Deltas == (0 - MaxDelta) .. MaxDelta
Methods == {"Fast", "Economic", "Drone"}
NoMethod == "None"
Statuses == {"CREATED", "PROCESSING", "SHIPPED", "DELIVERED", "CANCELLED"}
\* A target that is no OrderStatus member: the status name as a plain string.
NotAStatus == "shipped"
Null == <<>>
\* The observer instances: the two NotificationService.__init__ adds, and a third.
Observers == {"Email", "SMS", "Push"}
DefaultObservers == <<"Email", "SMS">>
\* An observer whose update raises.
FaultyObserver == "Faulty"
\* Product objects: the one main.py constructs for an identifier, and two
\* more constructed later with the same identifier.
ProductObjects == Products \X {"first", "second", "third"}
product_id(product) == product[1]
Catalog == <<[id |-> "P006", product |-> <<"P006", "first">>],
             [id |-> "P007", product |-> <<"P007", "first">>]>>

VARIABLES
    stock,          \* Product.__stock_quantity of every catalog entry
    price,          \* Product.__price of every catalog entry
    orders,         \* the Order objects returned by create_order, by creation
    history,        \* Customer.__order_history: indices into orders
    sent,           \* the notifications the last call handed to
                    \* NotificationService.send_order_notification
    now,            \* datetime.now(), in hours
    last,           \* the last call: the operation and what it returned
    args,           \* the arguments of the last call, kept in single-call runs
    stock0,         \* the stock at the start of the run (never written)
    observers,      \* NotificationService.__observers
    invoked,        \* the observer.update calls made during the last call
    registry,       \* InventoryManager.__products, in insertion order
    threads,        \* the threads inside Product.decrease_stock
    singleton       \* InventoryManager._instance, and the InventoryManager
                    \* objects constructed so far, each with its __products

vars == <<stock, price, orders, history, sent, now, last, args, stock0,
          observers, invoked, registry, threads, singleton>>

\* What the calls on orders and stock leave alone.
others == <<observers, registry, threads, singleton>>

(* --------------------------- Product ---------------------------------- *)
\* decrease_stock without its sufficiency check.
decrease_stock_unchecked(st, p, q) ==
    [ok |-> TRUE, stock |-> [st EXCEPT ![p] = @ - q]]

\* Product.decrease_stock: check, then write.
decrease_stock(st, p, q) ==
    IF st[p] >= q
    THEN [ok |-> TRUE, stock |-> [st EXCEPT ![p] = @ - q]]
    ELSE [ok |-> FALSE, stock |-> st]

\* increase_stock adding one unit whatever the amount.
increase_stock_by_one(st, p, q) ==
    [raised |-> FALSE, stock |-> [st EXCEPT ![p] = @ + 1]]

\* Product.increase_stock: raises ValueError on a negative amount.
increase_stock(st, p, q) ==
    IF q < 0
    THEN [raised |-> TRUE, stock |-> st]
    ELSE [raised |-> FALSE, stock |-> [st EXCEPT ![p] = @ + q]]

\* Product.price setter: raises ValueError on a negative value.
set_price(pr, p, value) ==
    IF value < 0
    THEN [raised |-> TRUE, price |-> pr]
    ELSE [raised |-> FALSE, price |-> [pr EXCEPT ![p] = value]]

(* --------------------------- Order ------------------------------------ *)
\* OrderItem.__init__: the price is read from the product when the line is made.
OrderItem(p, q, pr) == [product |-> p, quantity |-> q, item_price |-> pr[p]]

\* Order.__init__
NewOrder(c) ==
    [customer |-> c, items |-> <<>>, status |-> "CREATED",
     shipping_method |-> NoMethod, shipping_cost |-> 0,
     delivery_date |-> Null, tracking_number |-> Null]

HasProduct(items, p) == \E i \in 1..Len(items) : items[i].product = p

\* add_item without its test of the quantity.
add_item_unvalidated(st, items, p, q, pr) ==
    LET d == decrease_stock(st, p, q) IN
    IF ~d.ok
    THEN [outcome |-> "False", stock |-> st, items |-> items]
    ELSE IF HasProduct(items, p)
         THEN [outcome |-> "True", stock |-> d.stock, items |-> items]
         ELSE [outcome |-> "True", stock |-> d.stock,
               items |-> Append(items, OrderItem(p, q, pr))]

\* Order.add_item: outcome "True" / "False" as returned, "ValueError" as raised.
add_item(st, items, p, q, pr) ==
    IF q <= 0
    THEN [outcome |-> "ValueError", stock |-> st, items |-> items]
    ELSE LET d == decrease_stock(st, p, q) IN
         IF ~d.ok
         THEN [outcome |-> "False", stock |-> st, items |-> items]
         ELSE IF HasProduct(items, p)
              THEN [outcome |-> "True", stock |-> d.stock, items |-> items]
              ELSE [outcome |-> "True", stock |-> d.stock,
                    items |-> Append(items, OrderItem(p, q, pr))]

\* The index of the first line of product p, 0 when there is none.
FirstLine(items, p) ==
    IF HasProduct(items, p)
    THEN CHOOSE i \in 1..Len(items) :
            /\ items[i].product = p
            /\ \A j \in 1..(i-1) : items[j].product # p
    ELSE 0

RemoveAt(s, i) == SubSeq(s, 1, i-1) \o SubSeq(s, i+1, Len(s))

\* Order.remove_item
remove_item(st, items, p) ==
    LET i == FirstLine(items, p) IN
    IF i = 0
    THEN [ok |-> FALSE, stock |-> st, items |-> items]
    ELSE [ok |-> TRUE,
          stock |-> increase_stock(st, p, items[i].quantity).stock,
          items |-> RemoveAt(items, i)]

RECURSIVE SumQuantity(_)
SumQuantity(items) ==
    IF items = <<>> THEN 0
    ELSE Head(items).quantity + SumQuantity(Tail(items))

\* get_subtotal reading every line's price from its product.
RECURSIVE get_subtotal_live(_)
get_subtotal_live(items) ==
    IF items = <<>> THEN 0
    ELSE price[Head(items).product] * Head(items).quantity
         + get_subtotal_live(Tail(items))

\* Order.get_subtotal (OrderItem.get_subtotal summed over the lines)
RECURSIVE get_subtotal(_)
get_subtotal(items) ==
    IF items = <<>> THEN 0
    ELSE Head(items).item_price * Head(items).quantity + get_subtotal(Tail(items))

\* get_total leaving the shipping cost out.
get_total_lines_only(o) == get_subtotal(o.items)

\* Order.get_total
get_total(o) == get_subtotal(o.items) + o.shipping_cost

(* --------------------------- shipping --------------------------------- *)
\* FastShipping.calculate_cost with the discount already at 1000 TL.
FastCostDiscountFrom1000(items) ==
    LET total_cost == 50 + 5 * SumQuantity(items) IN
    IF get_subtotal(items) >= Tenths(1000) THEN total_cost * 9 ELSE Tenths(total_cost)

\* FastShipping.calculate_cost: (50 + 5 n) TL, times 0.9 above 1000 TL.
FastCost(items) ==
    LET total_cost == 50 + 5 * SumQuantity(items) IN
    IF get_subtotal(items) > Tenths(1000) THEN total_cost * 9 ELSE Tenths(total_cost)

\* EconomicShipping.calculate_cost
EconomicCost(items) == IF get_subtotal(items) > Tenths(500) THEN 0 ELSE Tenths(20)

\* DroneShipping.calculate_cost
DroneCost(items) == Tenths(100 + 10 * SumQuantity(items))

calculate_cost(m, items) ==
    CASE m = "Fast" -> FastCost(items)
      [] m = "Economic" -> EconomicCost(items)
      [] m = "Drone" -> DroneCost(items)

\* The selector sending a subtotal of exactly 2000 TL by drone.
get_optimal_shipping_method_from2000(items) ==
    LET total_quantity == SumQuantity(items)
        subtotal == get_subtotal(items) IN
    IF subtotal >= Tenths(2000) THEN "Drone"
    ELSE IF subtotal > Tenths(1000) \/ total_quantity <= 2 THEN "Fast"
    ELSE "Economic"

\* ShippingFactory.get_optimal_shipping_method
get_optimal_shipping_method(items) ==
    LET total_quantity == SumQuantity(items)
        subtotal == get_subtotal(items) IN
    IF subtotal > Tenths(2000) THEN "Drone"
    ELSE IF subtotal > Tenths(1000) \/ total_quantity <= 2 THEN "Fast"
    ELSE "Economic"

\* Some of the letter pairs random.choices(string.ascii_uppercase, k=2) gives,
\* and some of the digit runs random.choices(string.digits, k=8) gives.
LetterPairs == {<<"A", "A">>, <<"Q", "Z">>}
DigitRuns == {<<"0", "0", "0", "0", "0", "0", "0", "0">>,
              <<"1", "2", "3", "4", "5", "6", "7", "9">>}

\* The tracking number cut to nine characters.
generate_tracking_number_short(letters, numbers) ==
    letters \o SubSeq(numbers, 1, Len(numbers) - 1)

\* ShippingMethod.generate_tracking_number: f"{letters}{numbers}"
generate_tracking_number(letters, numbers) == letters \o numbers

TrackingNumbers ==
    {generate_tracking_number(l, n) : l \in LetterPairs, n \in DigitRuns}

Day == 24

\* estimate_delivery_time of the three strategies, called at hour t: every
\* value the random draw can give.
estimate_delivery_time(m, t) ==
    CASE m = "Fast" -> {t + Day * days : days \in 1..2}
      [] m = "Economic" -> {t + Day * days : days \in 3..5}
      [] m = "Drone" -> {t + hours : hours \in 1..6} \cup {t + Day}

\* Order.shipping_method setter: the cost is computed when a strategy is given.
SetShippingMethod(o, m) ==
    IF m # NoMethod
    THEN [o EXCEPT !.shipping_method = m,
                   !.shipping_cost = calculate_cost(m, o.items)]
    ELSE [o EXCEPT !.shipping_method = m]

(* --------------------------- OrderFactory ----------------------------- *)
\* The rollback of create_order: every line of the order gives its quantity back.
RECURSIVE Rollback(_, _)
Rollback(st, items) ==
    IF items = <<>> THEN st
    ELSE Rollback(increase_stock(st, Head(items).product, Head(items).quantity).stock,
                  Tail(items))

\* The loop of create_order over the requested lines.
RECURSIVE AddAll(_, _, _, _)
AddAll(reqs, st, items, pr) ==
    IF reqs = <<>>
    THEN [outcome |-> "order", stock |-> st, items |-> items]
    ELSE LET a == add_item(st, items, Head(reqs)[1], Head(reqs)[2], pr) IN
         CASE a.outcome = "ValueError" ->
                [outcome |-> "raised", stock |-> a.stock, items |-> a.items]
           [] a.outcome = "False" ->
                [outcome |-> "none", stock |-> Rollback(a.stock, a.items),
                 items |-> a.items]
           [] a.outcome = "True" ->
                AddAll(Tail(reqs), a.stock, a.items, pr)

\* create_order asking the selector whether or not select_shipping is on.
ResolveShipping_always_selecting(o, select_shipping, m) ==
    IF m # NoMethod THEN SetShippingMethod(o, m)
    ELSE SetShippingMethod(o, get_optimal_shipping_method(o.items))

\* create_order asking the selector first and reading shipping_method only
\* when select_shipping is off.
ResolveShipping_selector_first(o, select_shipping, m) ==
    IF select_shipping
    THEN SetShippingMethod(o, get_optimal_shipping_method(o.items))
    ELSE IF m # NoMethod THEN SetShippingMethod(o, m) ELSE o

\* The strategy create_order resolves: explicit, else the selector, else none.
ResolveShipping(o, select_shipping, m) ==
    IF m # NoMethod THEN SetShippingMethod(o, m)
    ELSE IF select_shipping
         THEN SetShippingMethod(o, get_optimal_shipping_method(o.items))
         ELSE o

\* create_order going on to record and announce the order after a refused line.
CreatedDespiteShortage(outcome) == outcome # "raised"

\* create_order returns the order, and records and announces it, only when
\* every line was added.
Created(outcome) == outcome = "order"

(* --------------------------- NotificationService ---------------------- *)
\* observer in self.__observers
IsObserver(obs, o) == \E i \in 1..Len(obs) : obs[i] = o

\* add_observer putting the new observer first in the list.
add_observer_front(obs, o) == IF IsObserver(obs, o) THEN obs ELSE <<o>> \o obs

\* add_observer without its membership test.
add_observer_unchecked(obs, o) == Append(obs, o)

\* NotificationService.add_observer
add_observer(obs, o) == IF IsObserver(obs, o) THEN obs ELSE Append(obs, o)

\* NotificationService.remove_observer: list.remove takes out the first match.
remove_observer(obs, o) ==
    IF IsObserver(obs, o)
    THEN LET i == CHOOSE k \in 1..Len(obs) :
                    obs[k] = o /\ \A j \in 1..(k-1) : obs[j] # o
         IN SubSeq(obs, 1, i-1) \o SubSeq(obs, i+1, Len(obs))
    ELSE obs

\* NotificationService.send_order_notification(order, message), as the call's
\* one notification.
Dispatch(oid, message) == <<[order |-> oid, message |-> message]>>

CreatedMessage == [text |-> "created"]

\* How far send_order_notification's loop gets: it has no try/except, so the
\* first observer whose update raises ends it.
Reached(obs) ==
    IF \E i \in 1..Len(obs) : obs[i] = FaultyObserver
    THEN CHOOSE i \in 1..Len(obs) :
            obs[i] = FaultyObserver /\ \A j \in 1..(i-1) : obs[j] # FaultyObserver
    ELSE Len(obs)

\* send_order_notification's loop: observer.update(order, full_message) for
\* the observers of the list, in list order; o is the order as it is then.
FanOut(obs, oid, o, message) ==
    [i \in 1..Reached(obs) |->
        [observer |-> obs[i], order |-> oid, seen |-> o, message |-> message]]

\* What an observer's update(order, message) may do to the observer list it
\* is called from: nothing, add_observer(x) or remove_observer(x).
Mutations ==
    {[kind |-> "none", observer |-> ""]}
        \cup {[kind |-> k, observer |-> x] : k \in {"add", "remove"}, x \in Observers}

Callback(obs, m) ==
    CASE m.kind = "add" -> add_observer(obs, m.observer)
      [] m.kind = "remove" -> remove_observer(obs, m.observer)
      [] OTHER -> obs

\* send_order_notification's loop, `for observer in self.__observers`, when the
\* update of observer `actor` does m: the list iterator keeps a position i in
\* the list itself and stops when i reaches the length the list has then.
RECURSIVE Loop(_, _, _, _, _)
Loop(obs, i, called, actor, m) ==
    IF i >= Len(obs)
    THEN [observers |-> obs, called |-> called]
    ELSE Loop(IF obs[i+1] = actor THEN Callback(obs, m) ELSE obs,
              i + 1, Append(called, obs[i+1]), actor, m)

\* A call that notifies once, and a call that does not notify.
Notify(oid, o, message) ==
    /\ sent' = Dispatch(oid, message)
    /\ invoked' = FanOut(observers, oid, o, message)

Quiet ==
    /\ sent' = <<>>
    /\ invoked' = <<>>

\* The SHIPPED part writing a tracking number whether or not the order has one.
Ship_always_tracks(o, code, eta) ==
    IF o.shipping_method # NoMethod
    THEN [o EXCEPT !.tracking_number = code, !.delivery_date = <<eta>>]
    ELSE o

\* update_order_status, the part run for SHIPPED: a tracking number when the
\* order has none and has a strategy, a delivery date when it has a strategy.
Ship(o, code, eta) ==
    LET tracked == IF o.tracking_number = Null /\ o.shipping_method # NoMethod
                   THEN [o EXCEPT !.tracking_number = code]
                   ELSE o
    IN IF o.shipping_method # NoMethod
       THEN [tracked EXCEPT !.delivery_date = <<eta>>]
       ELSE tracked

\* The message of update_order_status: old -> new, and for SHIPPED the tracking
\* number and the delivery date the order has.
StatusMessage(old, o) ==
    [old |-> old, new |-> o.status,
     tracking |-> IF o.status = "SHIPPED" THEN o.tracking_number ELSE Null,
     delivery |-> IF o.status = "SHIPPED" THEN o.delivery_date ELSE Null]

(* --------------------------- Customer --------------------------------- *)
\* add_order_to_history putting the order at the head of the list.
add_order_to_history_front(h, oid) == <<oid>> \o h

\* Customer.add_order_to_history
add_order_to_history(h, oid) == Append(h, oid)

(* --------------------------- InventoryManager ------------------------- *)
\* The index of the entry of key id in the dictionary, 0 when there is none.
KeyIndex(reg, id) ==
    IF \E i \in 1..Len(reg) : reg[i].id = id
    THEN CHOOSE i \in 1..Len(reg) :
            reg[i].id = id /\ \A j \in 1..(i-1) : reg[j].id # id
    ELSE 0

\* product = self.get_product(product_id); product is not None
Registered(id) == KeyIndex(registry, id) # 0

\* add_product adding an entry whether or not the key is there already.
add_product_appending(reg, product) ==
    Append(reg, [id |-> product_id(product), product |-> product])

\* InventoryManager.add_product: self.__products[product.product_id] = product
add_product(reg, product) ==
    LET i == KeyIndex(reg, product_id(product)) IN
    IF i = 0
    THEN Append(reg, [id |-> product_id(product), product |-> product])
    ELSE [reg EXCEPT ![i].product = product]

\* InventoryManager.get_product: self.__products.get(product_id)
get_product(reg, id) ==
    LET i == KeyIndex(reg, id) IN
    IF i = 0 THEN Null ELSE reg[i].product

\* InventoryManager.remove_product
remove_product(reg, id) ==
    LET i == KeyIndex(reg, id) IN
    IF i = 0
    THEN [ok |-> FALSE, registry |-> reg]
    ELSE [ok |-> TRUE, registry |-> RemoveAt(reg, i)]

\* The class before any instance is made, and as main.py leaves it: one
\* instance, got from get_instance, holding the catalog.
NoManagers == [instance |-> Null, managers |-> <<>>]
MainManagers == [instance |-> <<1>>, managers |-> <<Catalog>>]

\* InventoryManager(): __init__ raises when _instance is set; otherwise a new
\* object with an empty __products is made, and _instance is left as it is.
construct(sg) ==
    IF sg.instance # Null
    THEN [raised |-> TRUE, singleton |-> sg]
    ELSE [raised |-> FALSE,
          singleton |-> [sg EXCEPT !.managers = Append(@, <<>>)]]

\* InventoryManager.get_instance: makes the instance when _instance is None.
get_instance(sg) ==
    IF sg.instance = Null
    THEN LET made == construct(sg).singleton IN
         [result |-> Len(made.managers),
          singleton |-> [made EXCEPT !.instance = <<Len(made.managers)>>]]
    ELSE [result |-> sg.instance[1], singleton |-> sg]

\* update_stock leaving the sufficiency check to decrease_stock, whose result
\* it ignores.
update_stock_unguarded(st, id, delta) ==
    IF ~Registered(id) THEN [ok |-> FALSE, stock |-> st]
    ELSE IF delta < 0
         THEN [ok |-> TRUE, stock |-> decrease_stock(st, id, 0 - delta).stock]
         ELSE [ok |-> TRUE, stock |-> increase_stock(st, id, delta).stock]

\* InventoryManager.update_stock
update_stock(st, id, delta) ==
    IF ~Registered(id) THEN [ok |-> FALSE, stock |-> st]
    ELSE IF delta < 0 /\ st[id] < 0 - delta THEN [ok |-> FALSE, stock |-> st]
    ELSE IF delta < 0
         THEN [ok |-> TRUE, stock |-> decrease_stock(st, id, 0 - delta).stock]
         ELSE [ok |-> TRUE, stock |-> increase_stock(st, id, delta).stock]

(* ----------------------------- calls ---------------------------------- *)
\* The request lists of at most n lines a caller can pass to create_order.
Requests(n) == UNION {[1..k -> Products \X Quantities] : k \in 0..n}

\* create_order returning None for a request list with no lines.
create_order_refusing_empty(c, reqs, sel, m) ==
    LET r == AddAll(reqs, stock, <<>>, price)
        o == ResolveShipping([NewOrder(c) EXCEPT !.items = r.items], sel, m)
        oid == Len(orders) + 1
    IN
    /\ stock' = r.stock
    /\ last' = [op |-> "create_order",
                result |-> IF reqs = <<>> THEN "none" ELSE r.outcome]
    /\ IF Created(r.outcome) /\ reqs # <<>>
       THEN /\ orders' = Append(orders, o)
            /\ history' = [history EXCEPT ![c] = add_order_to_history(@, oid)]
            /\ Notify(oid, o, CreatedMessage)
       ELSE /\ UNCHANGED <<orders, history>>
            /\ Quiet
    /\ UNCHANGED <<price, now, stock0, others>>

\* OrderFactory.create_order(c, reqs, select_shipping = sel, shipping_method = m)
create_order(c, reqs, sel, m) ==
    LET r == AddAll(reqs, stock, <<>>, price)
        o == ResolveShipping([NewOrder(c) EXCEPT !.items = r.items], sel, m)
        oid == Len(orders) + 1
    IN
    /\ stock' = r.stock
    /\ last' = [op |-> "create_order", result |-> r.outcome]
    /\ IF Created(r.outcome)
       THEN /\ orders' = Append(orders, o)
            /\ history' = [history EXCEPT ![c] = add_order_to_history(@, oid)]
            /\ Notify(oid, o, CreatedMessage)
       ELSE /\ UNCHANGED <<orders, history>>
            /\ Quiet
    /\ UNCHANGED <<price, now, stock0, others>>

\* order.shipping_method = m called on order oid, which the caller holds.
OrderSetShippingMethod(oid, m) ==
    /\ orders' = [orders EXCEPT ![oid] = SetShippingMethod(@, m)]
    /\ last' = [op |-> "set_shipping_method", result |-> m]
    /\ Quiet
    /\ UNCHANGED <<stock, price, history, now, stock0, others>>

\* add_item computing the shipping cost again from the lines it leaves.
OrderAddItem_recosting(oid, p, q) ==
    LET a == add_item(stock, orders[oid].items, p, q, price) IN
    /\ stock' = a.stock
    /\ orders' = [orders EXCEPT ![oid] =
            SetShippingMethod([@ EXCEPT !.items = a.items], @.shipping_method)]
    /\ last' = [op |-> "add_item", result |-> a.outcome]
    /\ Quiet
    /\ UNCHANGED <<price, history, now, stock0, others>>

\* Order.add_item(p, q) called on order oid, which the caller holds.
OrderAddItem(oid, p, q) ==
    LET a == add_item(stock, orders[oid].items, p, q, price) IN
    /\ stock' = a.stock
    /\ orders' = [orders EXCEPT ![oid].items = a.items]
    /\ last' = [op |-> "add_item", result |-> a.outcome]
    /\ Quiet
    /\ UNCHANGED <<price, history, now, stock0, others>>

\* Order.remove_item(p) called on order oid, which the caller holds.
OrderRemoveItem(oid, p) ==
    LET r == remove_item(stock, orders[oid].items, p) IN
    /\ stock' = r.stock
    /\ orders' = [orders EXCEPT ![oid].items = r.items]
    /\ last' = [op |-> "remove_item", result |-> r.ok]
    /\ Quiet
    /\ UNCHANGED <<price, history, now, stock0, others>>

\* InventoryManager.update_stock(id, delta); stock is followed up to MaxStock.
InventoryUpdateStock(id, delta) ==
    LET u == update_stock(stock, id, delta) IN
    /\ \A p \in Products : u.stock[p] <= MaxStock
    /\ stock' = u.stock
    /\ last' = [op |-> "update_stock", result |-> u.ok]
    /\ Quiet
    /\ UNCHANGED <<price, orders, history, now, stock0, others>>

\* update_order_status without its isinstance(new_status, OrderStatus) test.
update_order_status_unvalidated(oid, new_status, code, eta) ==
    LET o == orders[oid]
        set == [o EXCEPT !.status = new_status]
    IN
    /\ orders' = [orders EXCEPT ![oid] = set]
    /\ last' = [op |-> "update_order_status", result |-> TRUE]
    /\ Notify(oid, set, StatusMessage(o.status, set))
    /\ UNCHANGED <<stock, price, history, now, stock0, others>>

\* update_order_status sending its notification before it writes the order.
update_order_status_notify_first(oid, new_status, code, eta) ==
    LET o == orders[oid]
        set == [o EXCEPT !.status = new_status]
        done == IF new_status = "SHIPPED" THEN Ship(set, code, eta) ELSE set
    IN
    IF new_status \notin Statuses
    THEN /\ last' = [op |-> "update_order_status", result |-> FALSE]
         /\ Quiet
         /\ UNCHANGED <<stock, price, orders, history, now, stock0, others>>
    ELSE /\ orders' = [orders EXCEPT ![oid] = done]
         /\ last' = [op |-> "update_order_status", result |-> TRUE]
         /\ Notify(oid, o, StatusMessage(o.status, set))
         /\ UNCHANGED <<stock, price, history, now, stock0, others>>

\* update_order_status giving the stock of a cancelled order's lines back.
update_order_status_releasing(oid, new_status, code, eta) ==
    LET o == orders[oid]
        set == [o EXCEPT !.status = new_status]
        done == IF new_status = "SHIPPED" THEN Ship(set, code, eta) ELSE set
    IN
    IF new_status \notin Statuses
    THEN /\ last' = [op |-> "update_order_status", result |-> FALSE]
         /\ Quiet
         /\ UNCHANGED <<stock, price, orders, history, now, stock0, others>>
    ELSE /\ orders' = [orders EXCEPT ![oid] = done]
         /\ stock' = IF new_status = "CANCELLED" THEN Rollback(stock, o.items)
                      ELSE stock
         /\ last' = [op |-> "update_order_status", result |-> TRUE]
         /\ Notify(oid, done, StatusMessage(o.status, done))
         /\ UNCHANGED <<price, history, now, stock0, others>>

\* update_order_status refusing to move an order out of DELIVERED or CANCELLED.
update_order_status_terminal(oid, new_status, code, eta) ==
    LET o == orders[oid]
        set == [o EXCEPT !.status = new_status]
        done == IF new_status = "SHIPPED" THEN Ship(set, code, eta) ELSE set
    IN
    IF new_status \notin Statuses \/ o.status \in {"DELIVERED", "CANCELLED"}
    THEN /\ last' = [op |-> "update_order_status", result |-> FALSE]
         /\ Quiet
         /\ UNCHANGED <<stock, price, orders, history, now, stock0, others>>
    ELSE /\ orders' = [orders EXCEPT ![oid] = done]
         /\ last' = [op |-> "update_order_status", result |-> TRUE]
         /\ Notify(oid, done, StatusMessage(o.status, done))
         /\ UNCHANGED <<stock, price, history, now, stock0, others>>

\* OrderFactory.update_order_status(order oid, new_status); code and eta are
\* what the strategy's random draws give when they are made.
update_order_status(oid, new_status, code, eta) ==
    LET o == orders[oid]
        set == [o EXCEPT !.status = new_status]
        done == IF new_status = "SHIPPED" THEN Ship(set, code, eta) ELSE set
    IN
    IF new_status \notin Statuses
    THEN /\ last' = [op |-> "update_order_status", result |-> FALSE]
         /\ Quiet
         /\ UNCHANGED <<stock, price, orders, history, now, stock0, others>>
    ELSE /\ orders' = [orders EXCEPT ![oid] = done]
         /\ last' = [op |-> "update_order_status", result |-> TRUE]
         /\ Notify(oid, done, StatusMessage(o.status, done))
         /\ UNCHANGED <<stock, price, history, now, stock0, others>>

\* The draws update_order_status makes for order o and target s.
CodesDrawn(o, s) ==
    IF s = "SHIPPED" /\ o.tracking_number = Null /\ o.shipping_method # NoMethod
    THEN TrackingNumbers ELSE {Null}

EtasDrawn(o, s, t) ==
    IF s = "SHIPPED" /\ o.shipping_method # NoMethod
    THEN estimate_delivery_time(o.shipping_method, t) ELSE {0}

InitRest ==
    /\ orders = <<>>
    /\ history = [c \in AllCustomers |-> <<>>]
    /\ sent = <<>>
    /\ invoked = <<>>
    /\ observers = DefaultObservers
    /\ registry = Catalog
    /\ threads = <<>>
    /\ singleton = MainManagers
    /\ now = 0
    /\ last = [op |-> "init"]
    /\ args = [op |-> "init"]
    /\ stock0 = stock

(* --------------- any sequence of calls on the stock ------------------- *)
Init ==
    /\ stock = [p \in Products |-> MaxStock]
    /\ price = CatalogPrice
    /\ InitRest

CreateOrder ==
    /\ Len(orders) < MaxOrders
    /\ \E c \in Customers, reqs \in Requests(MaxLines) :
        /\ create_order(c, reqs, FALSE, NoMethod)
        /\ UNCHANGED args

AddItem ==
    \E oid \in 1..Len(orders), p \in Products, q \in Quantities :
        OrderAddItem(oid, p, q) /\ UNCHANGED args

RemoveItem ==
    \E oid \in 1..Len(orders), p \in Products :
        OrderRemoveItem(oid, p) /\ UNCHANGED args

UpdateStock ==
    \E id \in Products \cup {UnknownId}, delta \in Deltas :
        InventoryUpdateStock(id, delta) /\ UNCHANGED args

Next == CreateOrder \/ AddItem \/ RemoveItem \/ UpdateStock

Spec == Init /\ [][Next]_vars

\* The same calls without update_stock: orders alone move the stock.
NextReserve == CreateOrder \/ AddItem \/ RemoveItem

SpecReserve == Init /\ [][NextReserve]_vars

(* ------- one call from every stock level, its arguments kept ---------- *)
InitCall ==
    /\ stock \in [Products -> 0..MaxStock]
    /\ price = CatalogPrice
    /\ InitRest

CallCreateOrder ==
    /\ last.op = "init"
    /\ \E c \in Customers, reqs \in Requests(MaxReq), sel \in BOOLEAN,
          m \in Methods \cup {NoMethod} :
        /\ create_order(c, reqs, sel, m)
        /\ args' = [reqs |-> reqs]

CallUpdateStock ==
    /\ last.op = "init"
    /\ \E id \in Products \cup {UnknownId}, delta \in Deltas :
        /\ InventoryUpdateStock(id, delta)
        /\ args' = [id |-> id, delta |-> delta]

\* remove_item on the order that create_order has just returned.
CallRemoveItem ==
    /\ last.op \in {"create_order", "remove_item"}
    /\ Len(orders) = 1
    /\ \E p \in Products :
        /\ OrderRemoveItem(1, p)
        /\ args' = [product |-> p, reqs |-> args.reqs]

\* add_item on the order that create_order has just returned.
CallAddItem ==
    /\ last.op = "create_order"
    /\ Len(orders) = 1
    /\ \E p \in Products, q \in Quantities :
        /\ OrderAddItem(1, p, q)
        /\ args' = [product |-> p, quantity |-> q, reqs |-> args.reqs]

NextCall == CallCreateOrder \/ CallUpdateStock \/ CallRemoveItem \/ CallAddItem

SpecCall == InitCall /\ [][NextCall]_vars
(* ------------- an order over a range of prices, and its shipping ----- *)
InitShipping ==
    /\ stock = [p \in Products |-> MaxStock]
    /\ price \in [Products -> ShippingPrices]
    /\ InitRest

\* The request lists of at most MaxLines lines with quantities in 1..MaxQty.
ValidRequests == UNION {[1..k -> Products \X (1..MaxQty)] : k \in 0..MaxLines}

\* One order per run: the selector and the cost formulas read nothing but
\* the lines of the order they are given.
ShipCreateOrder ==
    /\ last.op = "init"
    /\ \E c \in Customers, reqs \in ValidRequests, sel \in BOOLEAN,
          m \in Methods \cup {NoMethod} :
        /\ create_order(c, reqs, sel, m)
        /\ UNCHANGED args

\* ShippingFactory.get_optimal_shipping_method(order), asked of an order.
SelectShipping ==
    \E oid \in 1..Len(orders) :
        /\ last' = [op |-> "get_optimal_shipping_method",
                    result |-> get_optimal_shipping_method(orders[oid].items)]
        /\ args' = [order |-> oid]
        /\ Quiet
        /\ UNCHANGED <<stock, price, orders, history, now, stock0, others>>

\* strategy.calculate_cost(order), asked of a strategy and an order.
CalculateCost ==
    \E oid \in 1..Len(orders), m \in Methods :
        /\ last' = [op |-> "calculate_cost",
                    result |-> calculate_cost(m, orders[oid].items)]
        /\ args' = [order |-> oid, method |-> m]
        /\ Quiet
        /\ UNCHANGED <<stock, price, orders, history, now, stock0, others>>

NextShipping == ShipCreateOrder \/ SelectShipping \/ CalculateCost

SpecShipping == InitShipping /\ [][NextShipping]_vars

(* ------------- one creation, its arguments kept ----------------------- *)
\* create_order(customer, products_with_quantities, select_shipping,
\* shipping_method) over the request lists, both flags and every strategy.
CreCreateOrder ==
    /\ last.op = "init"
    /\ \E c \in Customers, reqs \in ValidRequests, sel \in BOOLEAN,
          m \in Methods \cup {NoMethod} :
        /\ create_order(c, reqs, sel, m)
        /\ args' = [customer |-> c, reqs |-> reqs, select_shipping |-> sel,
                    shipping_method |-> m]

SpecCreate == InitShipping /\ [][CreCreateOrder]_vars

(* ------------- an order and its status transitions -------------------- *)
InitStatus ==
    /\ stock = [p \in Products |-> MaxStock]
    /\ price = CatalogPrice
    /\ InitRest

\* One order per run, of one line: update_order_status reads the order's
\* status, strategy and tracking number only.
StatusCreateOrder ==
    /\ last.op = "init"
    /\ \E c \in Customers, p \in Products, q \in 1..MaxQty, sel \in BOOLEAN,
          m \in Methods \cup {NoMethod} :
        /\ create_order(c, <<<<p, q>>>>, sel, m)
        /\ UNCHANGED args

UpdateOrderStatus ==
    \E oid \in 1..Len(orders), s \in Statuses \cup {NotAStatus} :
        \E code \in CodesDrawn(orders[oid], s), eta \in EtasDrawn(orders[oid], s, now) :
            /\ update_order_status(oid, s, code, eta)
            /\ args' = [order |-> oid, new_status |-> s, at |-> now,
                        tracking_before |-> orders[oid].tracking_number]

\* An hour passes between two calls.
Tick ==
    /\ now < MaxNow
    /\ now' = now + 1
    /\ UNCHANGED <<stock, price, orders, history, sent, invoked, last, args, stock0, others>>

\* remove_item on the order, a call that is neither a creation nor a transition.
StatusRemoveItem ==
    \E oid \in 1..Len(orders), p \in Products :
        /\ OrderRemoveItem(oid, p)
        /\ args' = [order |-> oid, product |-> p]

NextStatus == StatusCreateOrder \/ UpdateOrderStatus \/ StatusRemoveItem \/ Tick

SpecStatus == InitStatus /\ [][NextStatus]_vars

(* ------------- the orders of two customers and their histories ------- *)
InitHistory ==
    /\ stock = [p \in Products |-> MaxStock]
    /\ price = CatalogPrice
    /\ InitRest

\* Every order asks for the whole stock of one product, so that a second
\* order for that product fails until the first gives its line back.
HistCreateOrder ==
    /\ Len(orders) < MaxHistory
    /\ \E c \in AllCustomers, p \in Products :
        /\ create_order(c, <<<<p, MaxStock>>>>, FALSE, NoMethod)
        /\ args' = [customer |-> c]

HistUpdateOrderStatus ==
    \E oid \in 1..Len(orders), s \in {"CANCELLED", "DELIVERED"} :
        /\ update_order_status(oid, s, Null, 0)
        /\ args' = [order |-> oid]

HistRemoveItem ==
    \E oid \in 1..Len(orders), p \in Products :
        /\ orders[oid].items # <<>>
        /\ OrderRemoveItem(oid, p)
        /\ args' = [order |-> oid]

NextHistory == HistCreateOrder \/ HistUpdateOrderStatus \/ HistRemoveItem

SpecHistory == InitHistory /\ [][NextHistory]_vars

(* ------------- orders with and without lines ------------------------- *)
\* The request lists of the run: the empty list, and one unit of one product.
EmptyOrOne == {<<>>} \cup {<<<<p, 1>>>> : p \in Products}

EmpCreateOrder ==
    /\ Len(orders) < MaxHistory
    /\ \E c \in AllCustomers, reqs \in EmptyOrOne, sel \in BOOLEAN,
          m \in {NoMethod, "Fast"} :
        /\ create_order(c, reqs, sel, m)
        /\ args' = [customer |-> c, reqs |-> reqs]

SpecEmpty == InitHistory /\ [][EmpCreateOrder]_vars

(* ------------- the entries of the inventory registry ------------------ *)
InitRegistry ==
    /\ stock = [p \in Products |-> MaxStock]
    /\ price = CatalogPrice
    /\ InitRest

RegAddProduct ==
    \E product \in ProductObjects :
        /\ registry' = add_product(registry, product)
        /\ last' = [op |-> "add_product"]
        /\ args' = [product |-> product]
        /\ Quiet
        /\ UNCHANGED <<stock, price, orders, history, now, stock0, observers, threads, singleton>>

RegGetProduct ==
    \E id \in Products \cup {UnknownId} :
        /\ last' = [op |-> "get_product", result |-> get_product(registry, id)]
        /\ args' = [id |-> id]
        /\ Quiet
        /\ UNCHANGED <<stock, price, orders, history, now, stock0, others>>

RegRemoveProduct ==
    \E id \in Products \cup {UnknownId} :
        LET r == remove_product(registry, id) IN
        /\ registry' = r.registry
        /\ last' = [op |-> "remove_product", result |-> r.ok]
        /\ args' = [id |-> id]
        /\ Quiet
        /\ UNCHANGED <<stock, price, orders, history, now, stock0, observers, threads, singleton>>

NextRegistry == RegAddProduct \/ RegGetProduct \/ RegRemoveProduct

SpecRegistry == InitRegistry /\ [][NextRegistry]_vars

(* ------------- threads reserving stock at the same time -------------- *)
\* Product.decrease_stock takes no lock: a thread tests the stock
\* (self.__stock_quantity >= quantity) in one step and writes it
\* (self.__stock_quantity -= quantity) in a later one, and other threads run
\* in between.
ThreadIds == 1..MaxThreads

InitThreads ==
    /\ stock \in [Products -> 0..MaxStock]
    /\ price = CatalogPrice
    /\ orders = <<>>
    /\ history = [c \in AllCustomers |-> <<>>]
    /\ sent = <<>>
    /\ invoked = <<>>
    /\ observers = DefaultObservers
    /\ registry = Catalog
    /\ threads = [t \in ThreadIds |-> [pc |-> "idle", product |-> "", quantity |-> 0]]
    /\ singleton = MainManagers
    /\ now = 0
    /\ last = [op |-> "init"]
    /\ args = [op |-> "init"]
    /\ stock0 = stock

\* What a step of a thread inside decrease_stock leaves alone.
outside == <<price, orders, history, sent, invoked, now, last, args, stock0,
             observers, registry, singleton>>

\* A thread enters product.decrease_stock(quantity), from Order.add_item.
ThreadCall ==
    \E t \in ThreadIds, p \in Products, q \in 1..MaxQty :
        /\ threads[t].pc = "idle"
        /\ threads' = [threads EXCEPT ![t] = [pc |-> "check", product |-> p, quantity |-> q]]
        /\ UNCHANGED <<stock, outside>>

\* if self.__stock_quantity >= quantity: ... else return False
ThreadCheck ==
    \E t \in ThreadIds :
        /\ threads[t].pc = "check"
        /\ threads' = [threads EXCEPT ![t].pc =
                IF stock[threads[t].product] >= threads[t].quantity
                THEN "write" ELSE "False"]
        /\ UNCHANGED <<stock, outside>>

\* self.__stock_quantity -= quantity; return True
ThreadWrite ==
    \E t \in ThreadIds :
        /\ threads[t].pc = "write"
        /\ stock' = [stock EXCEPT ![threads[t].product] = @ - threads[t].quantity]
        /\ threads' = [threads EXCEPT ![t].pc = "True"]
        /\ UNCHANGED outside

NextThreads == ThreadCall \/ ThreadCheck \/ ThreadWrite

SpecThreads == InitThreads /\ [][NextThreads]_vars

(* ------------- create_order and remove_item at the same time --------- *)
\* Neither OrderFactory nor Order nor Product takes a lock. A thread inside
\* create_order or remove_item reads a stock count in one step and writes it
\* in a later one (self.__stock_quantity -= quantity and += quantity are a
\* load and a store), and other threads run in between.
IdleThread ==
    [pc |-> "idle", call |-> "", reqs |-> <<>>, k |-> 0, items |-> <<>>,
     order |-> 0, product |-> "", quantity |-> 0, loaded |-> 0, result |-> ""]

InitConcurrent ==
    /\ stock = [p \in Products |-> MaxStock]
    /\ price = CatalogPrice
    /\ orders = <<>>
    /\ history = [c \in AllCustomers |-> <<>>]
    /\ sent = <<>>
    /\ invoked = <<>>
    /\ observers = DefaultObservers
    /\ registry = Catalog
    /\ threads = [t \in ThreadIds |-> IdleThread]
    /\ singleton = MainManagers
    /\ now = 0
    /\ last = [op |-> "init"]
    /\ args = [op |-> "init"]
    /\ stock0 = stock

\* The request lists of the threads: one line, or one line of each product;
\* no list names a product twice and every quantity is positive.
ConRequests ==
    {<<<<p, q>>>> : p \in Products, q \in 1..MaxQty}
        \cup {reqs \in [1..2 -> Products \X (1..MaxQty)] : reqs[1][1] # reqs[2][1]}

\* What the stock steps of a thread leave alone.
apart == <<price, orders, history, sent, invoked, now, last, args, stock0,
           observers, registry, singleton>>

\* One order is created before the threads start.
ConSeed ==
    /\ orders = <<>>
    /\ \A t \in ThreadIds : threads[t].pc = "idle"
    /\ \E c \in Customers, p \in Products, q \in 1..MaxQty :
        /\ create_order(c, <<<<p, q>>>>, FALSE, NoMethod)
        /\ UNCHANGED args

\* A thread enters create_order: order = Order(customer), then the loop.
ConCallCreate ==
    \E t \in ThreadIds, reqs \in ConRequests :
        /\ threads[t].pc = "idle"
        /\ threads' = [threads EXCEPT ![t] =
                [IdleThread EXCEPT !.pc = "check", !.call = "create_order",
                                   !.reqs = reqs, !.k = 1]]
        /\ UNCHANGED <<stock, apart>>

\* add_item -> decrease_stock: if self.__stock_quantity >= quantity. When it
\* is not, add_item returns False and create_order starts to give back the
\* lines the order has, or returns None when it has none.
ConCheck ==
    \E t \in ThreadIds :
        LET th == threads[t] IN
        /\ th.pc = "check"
        /\ threads' = [threads EXCEPT ![t] =
                IF stock[th.reqs[th.k][1]] >= th.reqs[th.k][2]
                THEN [th EXCEPT !.pc = "load"]
                ELSE IF th.items = <<>>
                     THEN [th EXCEPT !.pc = "done", !.result = "none"]
                     ELSE [th EXCEPT !.pc = "undo_load", !.k = 1]]
        /\ UNCHANGED <<stock, apart>>

\* self.__stock_quantity -= quantity, the load.
ConLoad ==
    \E t \in ThreadIds :
        LET th == threads[t] IN
        /\ th.pc = "load"
        /\ threads' = [threads EXCEPT ![t] =
                [th EXCEPT !.pc = "store", !.loaded = stock[th.reqs[th.k][1]]]]
        /\ UNCHANGED <<stock, apart>>

\* self.__stock_quantity -= quantity, the store; then add_item appends the
\* line to the order the thread is building, and the loop goes on.
ConStore ==
    \E t \in ThreadIds :
        LET th == threads[t]
            p == th.reqs[th.k][1]
            q == th.reqs[th.k][2]
            items == IF HasProduct(th.items, p) THEN th.items
                     ELSE Append(th.items, OrderItem(p, q, price))
        IN
        /\ th.pc = "store"
        /\ stock' = [stock EXCEPT ![p] = th.loaded - q]
        /\ threads' = [threads EXCEPT ![t] =
                IF th.k = Len(th.reqs)
                THEN [th EXCEPT !.pc = "finish", !.items = items]
                ELSE [th EXCEPT !.pc = "check", !.items = items, !.k = th.k + 1]]
        /\ UNCHANGED apart

\* create_order after its loop: history, notification, return order.
ConFinish ==
    \E t \in ThreadIds, c \in Customers :
        LET th == threads[t]
            o == ResolveShipping([NewOrder(c) EXCEPT !.items = th.items],
                                 FALSE, NoMethod)
            oid == Len(orders) + 1
        IN
        /\ th.pc = "finish"
        /\ orders' = Append(orders, o)
        /\ history' = [history EXCEPT ![c] = add_order_to_history(@, oid)]
        /\ Notify(oid, o, CreatedMessage)
        /\ threads' = [threads EXCEPT ![t] =
                [th EXCEPT !.pc = "done", !.result = "order"]]
        /\ UNCHANGED <<stock, price, now, last, args, stock0,
                       observers, registry, singleton>>

\* item.product.increase_stock(item.quantity) of the rollback, the load.
ConUndoLoad ==
    \E t \in ThreadIds :
        LET th == threads[t] IN
        /\ th.pc = "undo_load"
        /\ threads' = [threads EXCEPT ![t] =
                [th EXCEPT !.pc = "undo_store",
                           !.loaded = stock[th.items[th.k].product]]]
        /\ UNCHANGED <<stock, apart>>

\* The store of the rollback; after the last line create_order returns None.
ConUndoStore ==
    \E t \in ThreadIds :
        LET th == threads[t]
            line == th.items[th.k]
        IN
        /\ th.pc = "undo_store"
        /\ stock' = [stock EXCEPT ![line.product] = th.loaded + line.quantity]
        /\ threads' = [threads EXCEPT ![t] =
                IF th.k = Len(th.items)
                THEN [th EXCEPT !.pc = "done", !.result = "none"]
                ELSE [th EXCEPT !.pc = "undo_load", !.k = th.k + 1]]
        /\ UNCHANGED apart

\* A thread enters order.remove_item(product) on an order that exists.
ConCallRemove ==
    \E t \in ThreadIds, oid \in 1..Len(orders), p \in Products :
        /\ threads[t].pc = "idle"
        /\ threads' = [threads EXCEPT ![t] =
                [IdleThread EXCEPT !.pc = "find", !.call = "remove_item",
                                   !.order = oid, !.product = p]]
        /\ UNCHANGED <<stock, apart>>

\* for i, item in enumerate(self.__items):
\*     if item.product.product_id == product_id
ConFind ==
    \E t \in ThreadIds :
        LET th == threads[t]
            i == FirstLine(orders[th.order].items, th.product)
        IN
        /\ th.pc = "find"
        /\ threads' = [threads EXCEPT ![t] =
                IF i = 0
                THEN [th EXCEPT !.pc = "done", !.result = "False"]
                ELSE [th EXCEPT !.pc = "rm_load", !.k = i,
                                !.quantity = orders[th.order].items[i].quantity]]
        /\ UNCHANGED <<stock, apart>>

\* product.increase_stock(item.quantity), the load.
ConRmLoad ==
    \E t \in ThreadIds :
        LET th == threads[t] IN
        /\ th.pc = "rm_load"
        /\ threads' = [threads EXCEPT ![t] =
                [th EXCEPT !.pc = "rm_store", !.loaded = stock[th.product]]]
        /\ UNCHANGED <<stock, apart>>

\* product.increase_stock(item.quantity), the store.
ConRmStore ==
    \E t \in ThreadIds :
        LET th == threads[t] IN
        /\ th.pc = "rm_store"
        /\ stock' = [stock EXCEPT ![th.product] = th.loaded + th.quantity]
        /\ threads' = [threads EXCEPT ![t] = [th EXCEPT !.pc = "rm_remove"]]
        /\ UNCHANGED apart

\* self.__items.pop(i); return True. The index is the one the search found:
\* list.pop takes out whatever line is at it now, and raises IndexError when
\* the list has become shorter than that.
ConRmRemove ==
    \E t \in ThreadIds :
        LET th == threads[t]
            gone == th.k > Len(orders[th.order].items)
        IN
        /\ th.pc = "rm_remove"
        /\ orders' = IF gone THEN orders
                      ELSE [orders EXCEPT ![th.order].items = RemoveAt(@, th.k)]
        /\ threads' = [threads EXCEPT ![t] =
                [th EXCEPT !.pc = "done",
                           !.result = IF gone THEN "IndexError" ELSE "True"]]
        /\ UNCHANGED <<stock, price, history, sent, invoked, now, last, args,
                       stock0, observers, registry, singleton>>

NextConcurrent ==
    \/ ConSeed \/ ConCallCreate \/ ConCheck \/ ConLoad \/ ConStore \/ ConFinish
    \/ ConUndoLoad \/ ConUndoStore
    \/ ConCallRemove \/ ConFind \/ ConRmLoad \/ ConRmStore \/ ConRmRemove

SpecConcurrent == InitConcurrent /\ [][NextConcurrent]_vars

(* ------------- an order, its lines and the catalog prices ------------- *)
InitOrder ==
    /\ stock = [p \in Products |-> MaxStock]
    /\ price = CatalogPrice
    /\ InitRest

\* The values a catalog price is set to; the negative one is refused.
PriceValues == {Tenths(1000), 0 - Tenths(1)}

\* One order per run, created with one line; add_item gives it more.
OrdCreateOrder ==
    /\ last.op = "init"
    /\ \E c \in Customers, p \in Products, q \in 1..MaxQty, sel \in BOOLEAN,
          m \in Methods \cup {NoMethod} :
        /\ create_order(c, <<<<p, q>>>>, sel, m)
        /\ UNCHANGED args

\* product.price = value
OrdSetPrice ==
    \E p \in Products, value \in PriceValues :
        LET r == set_price(price, p, value) IN
        /\ price' = r.price
        /\ last' = [op |-> "set_price", result |-> IF r.raised THEN "ValueError" ELSE "set"]
        /\ args' = [product |-> p]
        /\ Quiet
        /\ UNCHANGED <<stock, orders, history, now, stock0, others>>

OrdAddItem ==
    \E oid \in 1..Len(orders), p \in Products, q \in 1..MaxQty :
        OrderAddItem(oid, p, q) /\ UNCHANGED args

OrdRemoveItem ==
    \E oid \in 1..Len(orders), p \in Products :
        OrderRemoveItem(oid, p) /\ UNCHANGED args

NextOrder == OrdCreateOrder \/ OrdSetPrice \/ OrdAddItem \/ OrdRemoveItem

SpecOrder == InitOrder /\ [][NextOrder]_vars

(* ------------- an order, its strategy and its shipping cost ----------- *)
\* One order per run, created with one line.
CostCreateOrder ==
    /\ last.op = "init"
    /\ \E c \in Customers, p \in Products, q \in 1..MaxQty, sel \in BOOLEAN,
          m \in Methods \cup {NoMethod} :
        /\ create_order(c, <<<<p, q>>>>, sel, m)
        /\ args' = [customer |-> c, select_shipping |-> sel, shipping_method |-> m]

CostAddItem ==
    \E oid \in 1..Len(orders), p \in Products, q \in 1..MaxQty :
        /\ OrderAddItem(oid, p, q)
        /\ args' = [order |-> oid]

CostRemoveItem ==
    \E oid \in 1..Len(orders), p \in Products :
        /\ OrderRemoveItem(oid, p)
        /\ args' = [order |-> oid]

\* The order is sent, or cancelled. In these runs the random draws of
\* update_order_status give one tracking number and one delivery time.
CostUpdateOrderStatus ==
    \E oid \in 1..Len(orders), s \in {"SHIPPED", "CANCELLED"} :
        LET code == CHOOSE x \in CodesDrawn(orders[oid], s) : TRUE
            eta == CHOOSE x \in EtasDrawn(orders[oid], s, now) : TRUE
        IN
        /\ update_order_status(oid, s, code, eta)
        /\ args' = [order |-> oid, new_status |-> s]

CostSetShippingMethod ==
    \E oid \in 1..Len(orders), m \in Methods \cup {NoMethod} :
        /\ OrderSetShippingMethod(oid, m)
        /\ args' = [order |-> oid, shipping_method |-> m]

NextCost ==
    \/ CostCreateOrder \/ CostAddItem \/ CostRemoveItem
    \/ CostUpdateOrderStatus \/ CostSetShippingMethod

SpecCost == InitOrder /\ [][NextCost]_vars

(* ------------- an order sent with or without a strategy -------------- *)
\* One order per run, of one line; the arguments of its creation are kept
\* next to those of the transitions that follow.
SendCreateOrder ==
    /\ last.op = "init"
    /\ \E c \in Customers, p \in Products, q \in 1..MaxQty, sel \in BOOLEAN,
          m \in Methods \cup {NoMethod} :
        /\ create_order(c, <<<<p, q>>>>, sel, m)
        /\ args' = [customer |-> c, select_shipping |-> sel, shipping_method |-> m]

SendUpdateOrderStatus ==
    \E oid \in 1..Len(orders), s \in Statuses :
        \E code \in CodesDrawn(orders[oid], s), eta \in EtasDrawn(orders[oid], s, now) :
            /\ update_order_status(oid, s, code, eta)
            /\ args' = [order |-> oid, new_status |-> s,
                        select_shipping |-> args.select_shipping,
                        shipping_method |-> args.shipping_method]

NextSend == SendCreateOrder \/ SendUpdateOrderStatus

SpecSend == InitOrder /\ [][NextSend]_vars

(* ------------- orders on products taken out of the registry ---------- *)
\* The caller keeps the Product objects it got from get_product; an entry
\* can leave the registry while orders are made with its object.
InitChoke ==
    /\ stock = [p \in Products |-> MaxStock]
    /\ price = CatalogPrice
    /\ InitRest

ChokeCreateOrder ==
    /\ Len(orders) < MaxOrders
    /\ \E c \in Customers, p \in Products, q \in 1..MaxQty :
        /\ create_order(c, <<<<p, q>>>>, FALSE, NoMethod)
        /\ args' = [product |-> p]

ChokeRemoveItem ==
    \E oid \in 1..Len(orders), p \in Products :
        /\ OrderRemoveItem(oid, p)
        /\ args' = [product |-> p]

ChokeUpdateStock ==
    \E id \in Products, delta \in Deltas :
        /\ InventoryUpdateStock(id, delta)
        /\ args' = [id |-> id]

NextChoke ==
    RegRemoveProduct \/ ChokeCreateOrder \/ ChokeRemoveItem \/ ChokeUpdateStock

SpecChoke == InitChoke /\ [][NextChoke]_vars

(* ------------- the instances of InventoryManager --------------------- *)
InitSingleton ==
    /\ stock = [p \in Products |-> MaxStock]
    /\ price = CatalogPrice
    /\ orders = <<>>
    /\ history = [c \in AllCustomers |-> <<>>]
    /\ sent = <<>>
    /\ invoked = <<>>
    /\ observers = DefaultObservers
    /\ registry = Catalog
    /\ threads = <<>>
    /\ singleton = NoManagers
    /\ now = 0
    /\ last = [op |-> "init"]
    /\ args = [op |-> "init"]
    /\ stock0 = stock

\* What a call on the InventoryManager class or on one of its objects leaves alone.
unmanaged == <<stock, price, orders, history, now, stock0, observers, registry,
               threads>>

SingGetInstance ==
    /\ singleton.instance # Null \/ Len(singleton.managers) < MaxInstances
    /\ LET g == get_instance(singleton) IN
        /\ singleton' = g.singleton
        /\ last' = [op |-> "get_instance", result |-> g.result]
    /\ args' = [op |-> "get_instance"]
    /\ Quiet
    /\ UNCHANGED unmanaged

SingConstruct ==
    /\ Len(singleton.managers) < MaxInstances
    /\ LET c == construct(singleton) IN
        /\ singleton' = c.singleton
        /\ last' = [op |-> "InventoryManager",
                    result |-> IF c.raised THEN "Exception"
                               ELSE Len(c.singleton.managers)]
    /\ args' = [op |-> "InventoryManager"]
    /\ Quiet
    /\ UNCHANGED unmanaged

\* add_product called on one of the objects the caller holds.
SingAddProduct ==
    \E i \in 1..Len(singleton.managers), p \in Products :
        /\ singleton' = [singleton EXCEPT
                            !.managers[i] = add_product(@, <<p, "first">>)]
        /\ last' = [op |-> "add_product"]
        /\ args' = [manager |-> i]
        /\ Quiet
        /\ UNCHANGED unmanaged

NextSingleton == SingGetInstance \/ SingConstruct \/ SingAddProduct

SpecSingleton == InitSingleton /\ [][NextSingleton]_vars

(* ------------- a dispatch with an observer that fails ----------------- *)
InitFaulty ==
    /\ stock = [p \in Products |-> MaxStock]
    /\ price = CatalogPrice
    /\ InitRest

FaultyAddObserver ==
    \E o \in Observers \cup {FaultyObserver} :
        /\ observers' = add_observer(observers, o)
        /\ last' = [op |-> "add_observer"]
        /\ args' = [observer |-> o]
        /\ Quiet
        /\ UNCHANGED <<stock, price, orders, history, now, stock0, registry, threads, singleton>>

FaultyRemoveObserver ==
    \E o \in Observers \cup {FaultyObserver} :
        /\ observers' = remove_observer(observers, o)
        /\ last' = [op |-> "remove_observer"]
        /\ args' = [observer |-> o]
        /\ Quiet
        /\ UNCHANGED <<stock, price, orders, history, now, stock0, registry, threads, singleton>>

\* send_order_notification(order, message) called with an order the caller
\* has made; the call raises what the failing observer raises.
FaultySend ==
    \E c \in Customers :
        /\ Notify(0, NewOrder(c), CreatedMessage)
        /\ last' = [op |-> "send_order_notification",
                    result |-> IF IsObserver(observers, FaultyObserver)
                               THEN "raised" ELSE "returned"]
        /\ args' = [customer |-> c]
        /\ UNCHANGED <<stock, price, orders, history, now, stock0, others>>

NextFaulty == FaultyAddObserver \/ FaultyRemoveObserver \/ FaultySend

SpecFaulty == InitFaulty /\ [][NextFaulty]_vars

(* ------------- the observers of the notification service -------------- *)
InitObservers ==
    /\ stock = [p \in Products |-> MaxStock]
    /\ price = CatalogPrice
    /\ InitRest

ObsAddObserver ==
    \E o \in Observers :
        /\ observers' = add_observer(observers, o)
        /\ last' = [op |-> "add_observer"]
        /\ args' = [observer |-> o]
        /\ Quiet
        /\ UNCHANGED <<stock, price, orders, history, now, stock0, registry, threads, singleton>>

ObsRemoveObserver ==
    \E o \in Observers :
        /\ observers' = remove_observer(observers, o)
        /\ last' = [op |-> "remove_observer"]
        /\ args' = [observer |-> o]
        /\ Quiet
        /\ UNCHANGED <<stock, price, orders, history, now, stock0, registry, threads, singleton>>

\* The events that dispatch: one order is created, then moved between statuses.
ObsCreateOrder ==
    /\ orders = <<>>
    /\ \E c \in Customers, p \in Products :
        /\ create_order(c, <<<<p, 1>>>>, FALSE, NoMethod)
        /\ args' = [customer |-> c]

ObsUpdateOrderStatus ==
    \E oid \in 1..Len(orders), s \in Statuses :
        /\ update_order_status(oid, s, Null, 0)
        /\ args' = [order |-> oid, new_status |-> s]

NextObservers ==
    ObsAddObserver \/ ObsRemoveObserver \/ ObsCreateOrder \/ ObsUpdateOrderStatus

SpecObservers == InitObservers /\ [][NextObservers]_vars

(* ------------- a dispatch whose observers change the list ------------- *)
\* send_order_notification(order, message) with an observer whose update adds
\* or removes an observer of the same service.
ReentrantSend ==
    \E c \in Customers, actor \in Observers, m \in Mutations :
        LET r == Loop(observers, 0, <<>>, actor, m) IN
        /\ observers' = r.observers
        /\ sent' = Dispatch(0, CreatedMessage)
        /\ invoked' = [i \in 1..Len(r.called) |->
                        [observer |-> r.called[i], order |-> 0,
                         seen |-> NewOrder(c), message |-> CreatedMessage]]
        /\ last' = [op |-> "send_order_notification", result |-> "returned"]
        /\ args' = [began |-> observers, actor |-> actor, does |-> m]
        /\ UNCHANGED <<stock, price, orders, history, now, stock0, registry, threads, singleton>>

NextReentrant == ObsAddObserver \/ ObsRemoveObserver \/ ReentrantSend

SpecReentrant == InitObservers /\ [][NextReentrant]_vars

(* ======================= properties of the calls ====================== *)
\* The quantity a request list asks of product p, over all its lines.
RECURSIVE Requested(_, _)
Requested(reqs, p) ==
    IF reqs = <<>> THEN 0
    ELSE (IF Head(reqs)[1] = p THEN Head(reqs)[2] ELSE 0) + Requested(Tail(reqs), p)

AllPositive(reqs) == \A i \in 1..Len(reqs) : reqs[i][2] > 0
SomeNonPositive(reqs) == \E i \in 1..Len(reqs) : reqs[i][2] <= 0
Short(reqs, st) == \E p \in Products : Requested(reqs, p) > st[p]
CreateReturned(result) == last.op = "create_order" /\ last.result = result

\* C1: a create_order call that fails because a line cannot be reserved
\* leaves every stock count as it was before the call, also when the request
\* names an item more than once before the failing line.
C1_Atomicity == CreateReturned("none") => stock = stock0

\* C2: the stock count of every catalog entry is >= 0 in every state reached
\* by create_order, add_item, remove_item and update_stock calls; no decrement
\* passes the sufficiency check with less stock than it takes.
C2_StockNonNegative == \A p \in Products : stock[p] >= 0

\* C2 witness: add_item has just been refused for lack of stock.
C2_Witness ==
    /\ last.op = "add_item" /\ last.result = "False"
    /\ \E p \in Products : stock[p] = 0

\* C3: update_stock(id, delta) with delta < 0 and |delta| above the stock of
\* id returns failure and leaves every stock count unchanged.
C3_AdjustShortfall ==
    (/\ last.op = "update_stock"
     /\ args.id \in Products
     /\ args.delta < 0
     /\ 0 - args.delta > stock0[args.id])
    => (last.result = FALSE /\ stock = stock0)

\* C3 witness: a decrement of more than the stock on hand was asked for.
C3_Witness ==
    /\ last.op = "update_stock"
    /\ args.id \in Products
    /\ args.delta < 0
    /\ 0 - args.delta > stock0[args.id]
    /\ stock0[args.id] > 0

\* C4: removing a line gives back exactly what was taken for that item when
\* it was added: the stock after remove_item is the stock before the item was
\* added, also when the item was requested more than once.
C4_Conservation ==
    (last.op = "remove_item" /\ last.result = TRUE)
    => stock[args.product] = stock0[args.product]

\* C5: a create_order call that fails on insufficient stock returns None,
\* appends nothing to the customer's order history and dispatches nothing.
C5_FailedCreate ==
    last.op = "create_order" =>
        /\ (AllPositive(args.reqs) /\ Short(args.reqs, stock0))
               => last.result = "none"
        /\ last.result = "none" =>
               /\ orders = <<>>
               /\ \A c \in Customers : history[c] = <<>>
               /\ sent = <<>>

\* C5 witness: the second of two lines could not be reserved.
C5_Witness ==
    /\ CreateReturned("none")
    /\ Len(args.reqs) = 2
    /\ AllPositive(args.reqs)
    /\ args.reqs[1][2] <= stock0[args.reqs[1][1]]
    /\ Short(args.reqs, stock0)

\* C6: when any line of a create_order request has a non-positive quantity,
\* the call changes no stock count, wherever the line stands in the list.
C6_InvalidQuantityFirst ==
    (last.op = "create_order" /\ SomeNonPositive(args.reqs)) => stock = stock0

\* C7: for a stock shortage or a non-positive quantity, add_item and
\* create_order return (False / None) and do not raise.
C7_NoRaise ==
    /\ last.op = "create_order" => last.result \in {"order", "none"}
    /\ last.op = "add_item" => last.result \in {"True", "False"}
(* ======================= properties of shipping ======================= *)
Lines(o) == 1..Len(o.items)

\* item_count: the sum of the line quantities of order o.
RECURSIVE ItemCountUpTo(_, _)
ItemCountUpTo(o, k) ==
    IF k = 0 THEN 0 ELSE ItemCountUpTo(o, k - 1) + o.items[k].quantity
ItemCount(o) == ItemCountUpTo(o, Len(o.items))

\* subtotal: the sum of line price x quantity of order o, in tenths of a TL.
RECURSIVE SubtotalUpTo(_, _)
SubtotalUpTo(o, k) ==
    IF k = 0 THEN 0
    ELSE SubtotalUpTo(o, k - 1) + o.items[k].item_price * o.items[k].quantity
Subtotal(o) == SubtotalUpTo(o, Len(o.items))

\* The selector's rule as the specification words it.
Choice(o) ==
    IF Subtotal(o) > Tenths(2000) THEN "Drone"
    ELSE IF Subtotal(o) > Tenths(1000) \/ ItemCount(o) <= 2 THEN "Fast"
    ELSE "Economic"

\* The cost formulas as the specification words them, in tenths of a TL.
CostFormula(m, o) ==
    CASE m = "Fast" ->
           IF Subtotal(o) > Tenths(1000)
           THEN (50 + 5 * ItemCount(o)) * 9
           ELSE (50 + 5 * ItemCount(o)) * 10
      [] m = "Economic" -> IF Subtotal(o) > Tenths(500) THEN 0 ELSE Tenths(20)
      [] m = "Drone" -> Tenths(100 + 10 * ItemCount(o))

\* C8: for every order the selector returns Drone when subtotal > 2000,
\* otherwise Fast when subtotal > 1000 or item_count <= 2, otherwise Economic.
C8_Selector ==
    last.op = "get_optimal_shipping_method"
    => last.result = Choice(orders[args.order])

\* C8 witness: subtotal exactly 1000 TL with three items goes Economic.
C8_Witness ==
    /\ last.op = "get_optimal_shipping_method"
    /\ Subtotal(orders[args.order]) = Tenths(1000)
    /\ ItemCount(orders[args.order]) = 3
    /\ last.result = "Economic"

UppercaseLetters ==
    {"A", "B", "C", "D", "E", "F", "G", "H", "I", "J", "K", "L", "M",
     "N", "O", "P", "Q", "R", "S", "T", "U", "V", "W", "X", "Y", "Z"}
DigitCharacters == {"0", "1", "2", "3", "4", "5", "6", "7", "8", "9"}

\* Two uppercase letters followed by eight digits.
TrackingFormat(t) ==
    /\ Len(t) = 10
    /\ \A i \in 1..2 : t[i] \in UppercaseLetters
    /\ \A i \in 3..10 : t[i] \in DigitCharacters

ShippedUntracked ==
    /\ last.op = "update_order_status"
    /\ args.new_status = "SHIPPED"
    /\ args.tracking_before = Null
    /\ orders[args.order].shipping_method # NoMethod

\* C10: a transition to SHIPPED of an order that has a strategy and no tracking
\* number leaves it with a tracking number of two uppercase letters and eight
\* digits and with a delivery date; with Fast the date is one or two days
\* after the transition.
C10_ShippedSideEffect ==
    ShippedUntracked =>
        LET o == orders[args.order] IN
        /\ o.tracking_number # Null
        /\ TrackingFormat(o.tracking_number)
        /\ o.delivery_date # Null
        /\ o.shipping_method = "Fast"
           => o.delivery_date[1] - args.at \in {24, 48}

\* C10 witness: a Fast order shipped an hour into the run, due two days later.
C10_Witness ==
    /\ ShippedUntracked
    /\ orders[args.order].shipping_method = "Fast"
    /\ args.at > 0
    /\ orders[args.order].delivery_date = <<args.at + 48>>
\* C11: update_order_status with a target that is no OrderStatus returns
\* False and changes nothing: status, tracking number and delivery date of the
\* order stay as they were, and nothing is notified.
C11_UnknownStatus ==
    [][(last'.op = "update_order_status" /\ args'.new_status \notin Statuses)
        => /\ last'.result = FALSE
           /\ orders' = orders
           /\ sent' = <<>>
           /\ invoked' = <<>>]_vars

\* C11 witness: the refused call was made on a shipped, tracked order.
C11_Witness ==
    /\ last.op = "update_order_status"
    /\ args.new_status = NotAStatus
    /\ last.result = FALSE
    /\ orders[args.order].status = "SHIPPED"
    /\ orders[args.order].tracking_number # Null
    /\ orders[args.order].delivery_date # Null
(* ======================= properties of the observers ================== *)
\* How many times observer o was invoked by the calls listed in inv.
Invocations(inv, o) == Cardinality({i \in 1..Len(inv) : inv[i].observer = o})

Without(obs, o) == SelectSeq(obs, LAMBDA x : x # o)

\* C12: a dispatch invokes every registered observer exactly once, in the
\* order of registration: a newly registered observer comes after all the
\* others, and unregistering one leaves the others in their order and takes it
\* out of later dispatches.
C12_FanOutOrder ==
    [][/\ sent' # <<>> =>
            /\ Len(invoked') = Len(observers')
            /\ \A i \in 1..Len(invoked') :
                /\ invoked'[i].observer = observers'[i]
                /\ invoked'[i].order = sent'[1].order
                /\ invoked'[i].message = sent'[1].message
            /\ \A o \in Observers :
                Invocations(invoked', o) = IF IsObserver(observers', o) THEN 1 ELSE 0
       /\ (last'.op = "add_observer" /\ ~IsObserver(observers, args'.observer))
            => observers' = Append(observers, args'.observer)
       /\ last'.op = "remove_observer"
            => observers' = Without(observers, args'.observer)]_vars

\* C12 witness: Email was unregistered and registered again, and a dispatch
\* then reached SMS, Push and Email in that order.
C12_Witness ==
    /\ sent # <<>>
    /\ observers = <<"SMS", "Push", "Email">>
    /\ Len(invoked) = 3
    /\ invoked[3].observer = "Email"

\* C13: the observer list never holds an observer twice; registering a
\* registered observer and unregistering an absent one change nothing; a
\* dispatch invokes no observer more than once.
C13_IdempotentRegistration ==
    [][/\ \A i, j \in 1..Len(observers') :
            observers'[i] = observers'[j] => i = j
       /\ (last'.op = "add_observer" /\ IsObserver(observers, args'.observer))
            => observers' = observers
       /\ (last'.op = "remove_observer" /\ ~IsObserver(observers, args'.observer))
            => observers' = observers
       /\ \A o \in Observers : Invocations(invoked', o) <= 1]_vars

\* C13 witness: the observer at the head of a longer list was registered again.
C13_Witness ==
    /\ last.op = "add_observer"
    /\ Len(observers) >= 2
    /\ args.observer = observers[1]
(* ======================= properties of the history ==================== *)
\* C14: a customer's history grows by exactly the order a successful
\* create_order has just returned for that customer, at its end, and no other
\* call (a failed creation, a status transition, a line removal) changes any
\* history; so every order is once in its customer's history, in creation
\* order, and in no other.
C14_HistoryAppendOnly ==
    [][/\ \A c \in AllCustomers :
            history'[c] =
                IF /\ last'.op = "create_order"
                   /\ last'.result = "order"
                   /\ args'.customer = c
                THEN Append(history[c], Len(orders'))
                ELSE history[c]
       /\ \A c \in AllCustomers :
            /\ \A i, j \in 1..Len(history'[c]) :
                i < j => history'[c][i] < history'[c][j]
            /\ \A oid \in 1..Len(orders') :
                orders'[oid].customer = c
                    <=> \E i \in 1..Len(history'[c]) : history'[c][i] = oid]_vars

\* C14 witness: a customer with two orders in the history, the first of them
\* cancelled and emptied of its line.
C14_Witness ==
    /\ history["C1234"] = <<1, 2>>
    /\ orders[1].status = "CANCELLED"
    /\ orders[1].items = <<>>
    /\ orders[2].items # <<>>
    /\ orders[1].items # orders[2].items
(* ======================= properties of the notifications ============== *)
\* Every observer invoked by the last call saw order oid as it is stored now.
SeenAsStored(oid) ==
    /\ Len(sent) = 1
    /\ sent[1].order = oid
    /\ invoked # <<>>
    /\ \A i \in 1..Len(invoked) :
        invoked[i].order = oid /\ invoked[i].seen = orders[oid]

\* C15: a successful create_order dispatches exactly once, when the order is
\* CREATED and has its shipping cost; a successful update_order_status
\* dispatches exactly once, when the new status and, for SHIPPED, the tracking
\* number and the delivery date are stored; no other call dispatches.
C15_OneNotificationPerEvent ==
    CASE last.op = "create_order" /\ last.result = "order" ->
            LET o == orders[Len(orders)] IN
            /\ SeenAsStored(Len(orders))
            /\ sent[1].message = CreatedMessage
            /\ o.status = "CREATED"
            /\ o.shipping_cost =
                IF o.shipping_method = NoMethod THEN 0
                ELSE CostFormula(o.shipping_method, o)
      [] last.op = "update_order_status" /\ last.result = TRUE ->
            LET o == orders[args.order] IN
            /\ SeenAsStored(args.order)
            /\ o.status = args.new_status
            /\ sent[1].message.new = args.new_status
            /\ (args.new_status = "SHIPPED" /\ o.shipping_method # NoMethod)
                => /\ o.tracking_number # Null
                   /\ o.delivery_date # Null
                   /\ sent[1].message.tracking = o.tracking_number
                   /\ sent[1].message.delivery = o.delivery_date
      [] OTHER -> sent = <<>> /\ invoked = <<>>

\* C15 witness: the order has just been shipped and both default observers
\* were told so, with the tracking number.
C15_Witness ==
    /\ last.op = "update_order_status"
    /\ args.new_status = "SHIPPED"
    /\ Len(sent) = 1
    /\ Len(invoked) = 2
    /\ sent[1].message.tracking # Null
    /\ sent[1].message.old = "PROCESSING"
(* ======================= properties of update_stock =================== *)
\* C16: update_stock(id, delta) on a registered id, with delta >= 0 or with
\* delta < 0 and |delta| <= stock, returns True and sets that entry's stock to
\* stock + delta, every other entry staying as it was; on an unknown id it
\* returns False and changes nothing.
C16_Adjust ==
    last.op = "update_stock" =>
        /\ (args.id \in Products
            /\ (args.delta >= 0 \/ 0 - args.delta <= stock0[args.id]))
            => /\ last.result = TRUE
               /\ stock = [p \in Products |->
                            IF p = args.id THEN stock0[p] + args.delta
                            ELSE stock0[p]]
        /\ args.id \notin Products
            => (last.result = FALSE /\ stock = stock0)

\* C16 witness: a decrement of the whole stock of an entry, which was granted.
C16_Witness ==
    /\ last.op = "update_stock"
    /\ args.id \in Products
    /\ args.delta < 0
    /\ 0 - args.delta = stock0[args.id]
    /\ last.result = TRUE
    /\ stock[args.id] = 0
(* ======================= properties of the registry =================== *)
\* The products the registry holds under identifier id.
Held(reg, id) == {reg[i].product : i \in {k \in 1..Len(reg) : reg[k].id = id}}

\* C17: the registry holds at most one entry per identifier; after
\* add_product(p) the entry of p's identifier is p and the other identifiers
\* keep theirs; get_product(id) returns the entry held under id, None when
\* there is none.
C17_RegistrationIdempotent ==
    [][/\ \A i, j \in 1..Len(registry') :
            registry'[i].id = registry'[j].id => i = j
       /\ last'.op = "add_product" =>
            /\ Held(registry', product_id(args'.product)) = {args'.product}
            /\ \A id \in Products \ {product_id(args'.product)} :
                Held(registry', id) = Held(registry, id)
       /\ last'.op = "get_product" =>
            IF Held(registry, args'.id) = {}
            THEN last'.result = Null
            ELSE Held(registry, args'.id) = {last'.result}]_vars

\* C17 witness: P006 was registered a second time with another object, and
\* get_product("P006") returned that object; the registry still has two entries.
C17_Witness ==
    /\ last.op = "get_product"
    /\ args.id = "P006"
    /\ last.result = <<"P006", "second">>
    /\ Len(registry) = 2
    /\ registry[1].id = "P006"
(* ======================= properties of the threads ==================== *)
\* The units of product p that decrease_stock has granted to threads 1..t.
RECURSIVE GrantedUpTo(_, _)
GrantedUpTo(p, t) ==
    IF t = 0 THEN 0
    ELSE GrantedUpTo(p, t - 1)
         + IF threads[t].pc = "True" /\ threads[t].product = p
           THEN threads[t].quantity ELSE 0

\* C18: for concurrent reservations of one product, interleaved between the
\* stock check and the stock write, the decrements that succeeded never add
\* up to more than the stock at the start, and the stock never goes below 0.
C18_NoOversell ==
    \A p \in Products :
        /\ GrantedUpTo(p, MaxThreads) <= stock0[p]
        /\ stock[p] >= 0
(* ======================= properties of prices and totals ============== *)
\* The line of product p that order oid had before the step, <<>> if none.
LineBefore(oid, p) ==
    IF oid <= Len(orders)
    THEN SelectSeq(orders[oid].items, LAMBDA line : line.product = p)
    ELSE <<>>

\* C19: the price on an order line is the catalog price of its product at the
\* moment the line was made, and stays that; setting a catalog price changes
\* no line price and no order's subtotal or total.
C19_PriceFreeze ==
    [][/\ \A oid \in 1..Len(orders') :
            \A i \in 1..Len(orders'[oid].items) :
                LET line == orders'[oid].items[i]
                    before == LineBefore(oid, line.product)
                IN line.item_price =
                        IF before # <<>> THEN before[1].item_price
                        ELSE price[line.product]
       /\ last'.op = "set_price" =>
            /\ Len(orders') = Len(orders)
            /\ \A oid \in 1..Len(orders) :
                /\ get_subtotal(orders[oid].items)' = get_subtotal(orders[oid].items)
                /\ get_total(orders[oid])' = get_total(orders[oid])]_vars

\* C19 witness: the catalog price of a product was set, and an order holds a
\* line of that product at another price.
C19_Witness ==
    /\ last.op = "set_price"
    /\ last.result = "set"
    /\ \E oid \in 1..Len(orders) :
        \E i \in 1..Len(orders[oid].items) :
            /\ orders[oid].items[i].product = args.product
            /\ orders[oid].items[i].item_price # price[args.product]

\* C20: in every state, get_total of every order is the sum over its lines of
\* line price x quantity, plus the shipping cost stored on the order.
C20_TotalInvariant ==
    \A oid \in 1..Len(orders) :
        get_total(orders[oid])
            = Subtotal(orders[oid]) + orders[oid].shipping_cost

\* C20 witness: an order with a shipping cost whose lines were changed after
\* the cost was set, and whose catalog prices were changed too.
C20_Witness ==
    /\ last.op = "remove_item"
    /\ last.result = TRUE
    /\ Len(orders) = 1
    /\ orders[1].shipping_cost > 0
    /\ orders[1].items # <<>>
    /\ price # CatalogPrice
(* ======================= properties of the transitions ================ *)
\* C21: update_order_status with any OrderStatus as its target returns True
\* and leaves the order in that status, whatever status the order was in.
C21_AnyTransition ==
    (last.op = "update_order_status" /\ args.new_status \in Statuses)
        => /\ last.result = TRUE
           /\ orders[args.order].status = args.new_status

\* C21 witness: a delivered order was put back to CREATED.
C21_Witness ==
    /\ last.op = "update_order_status"
    /\ args.new_status = "CREATED"
    /\ last.result = TRUE
    /\ Len(sent) = 1
    /\ sent[1].message.old = "DELIVERED"
    /\ orders[args.order].status = "CREATED"

\* C22: once an order is DELIVERED or CANCELLED, no later step changes its
\* status.
C22_Terminal ==
    [][\A oid \in 1..Len(orders) :
        orders[oid].status \in {"DELIVERED", "CANCELLED"}
            => orders'[oid].status = orders[oid].status]_vars
(* ======================= properties of the reservations =============== *)
\* C23: a create_order call that asks for the same product twice, with
\* quantities q1 and q2 the stock can satisfy, takes q1 + q2 from the stock
\* and returns an order with two lines of that product, of q1 and of q2.
C23_DuplicateLines ==
    (/\ last.op = "create_order"
     /\ Len(args.reqs) = 2
     /\ args.reqs[1][1] = args.reqs[2][1]
     /\ AllPositive(args.reqs)
     /\ args.reqs[1][2] + args.reqs[2][2] <= stock0[args.reqs[1][1]])
        => LET p == args.reqs[1][1]
               q1 == args.reqs[1][2]
               q2 == args.reqs[2][2]
           IN /\ last.result = "order"
              /\ stock[p] = stock0[p] - (q1 + q2)
              /\ Len(orders) = 1
              /\ Len(orders[1].items) = 2
              /\ orders[1].items[1].product = p
              /\ orders[1].items[1].quantity = q1
              /\ orders[1].items[2].product = p
              /\ orders[1].items[2].quantity = q2

\* The units of product p on the first k lines of the item list.
RECURSIVE OnLines(_, _, _)
OnLines(items, p, k) ==
    IF k = 0 THEN 0
    ELSE OnLines(items, p, k - 1)
         + IF items[k].product = p THEN items[k].quantity ELSE 0

\* The units of product p on the lines of the first n orders.
RECURSIVE OnOrders(_, _)
OnOrders(p, n) ==
    IF n = 0 THEN 0
    ELSE OnOrders(p, n - 1) + OnLines(orders[n].items, p, Len(orders[n].items))

\* C27: with create_order, add_item and remove_item only, the stock of every
\* product plus the quantities of all order lines of that product is the
\* stock the run started with.
C27_ReservationAccounting ==
    \A p \in Products : stock[p] + OnOrders(p, Len(orders)) = stock0[p]
(* ======================= properties of a failing observer ============= *)
\* C24: when an observer fails in a dispatch, every observer registered after
\* it is still invoked in that dispatch; so every registered observer is.
C24_ErrorIsolation ==
    sent # <<>> =>
        \A i \in 1..Len(observers) :
            \E j \in 1..Len(invoked) : invoked[j].observer = observers[i]
(* ======================= properties of the choke point ================ *)
\* C25: every change of a stock count goes through update_stock of the
\* registry, which refuses an identifier it does not hold; so no step changes
\* the stock of a product that is not in the registry.
C25_ChokePoint ==
    [][\A p \in Products : stock'[p] # stock[p] => Registered(p)]_vars
(* ======================= properties of the singleton ================== *)
\* C26: at most one InventoryManager object ever exists, and every
\* get_instance call returns that one object.
C26_SingleInstance ==
    /\ Len(singleton.managers) <= 1
    /\ last.op = "get_instance" => last.result = 1
(* ======================= properties of the side effects =============== *)
\* C28: an order that has a tracking number keeps it in every later step;
\* going out of SHIPPED and into it again leaves the first number.
C28_TrackingStable ==
    [][\A oid \in 1..Len(orders) :
        orders[oid].tracking_number # Null
            => orders'[oid].tracking_number = orders[oid].tracking_number]_vars

\* C28 witness: an order that had a tracking number was moved to SHIPPED again
\* and has the same number.
C28_Witness ==
    /\ last.op = "update_order_status"
    /\ args.new_status = "SHIPPED"
    /\ last.result = TRUE
    /\ args.tracking_before # Null
    /\ Len(sent) = 1
    /\ sent[1].message.old # "SHIPPED"
    /\ orders[args.order].tracking_number = args.tracking_before

\* C29: update_order_status with a target other than SHIPPED changes the
\* status of the order and nothing else of it, and no stock count; CANCELLED
\* gives no stock back.
C29_StatusOnly ==
    [][(/\ last'.op = "update_order_status"
        /\ args'.new_status \in Statuses \ {"SHIPPED"})
        => /\ orders' = [orders EXCEPT ![args'.order].status = args'.new_status]
           /\ stock' = stock]_vars

\* C29 witness: a shipped order with its line was cancelled, and the stock is
\* still short of the units on that line.
C29_Witness ==
    /\ last.op = "update_order_status"
    /\ args.new_status = "CANCELLED"
    /\ last.result = TRUE
    /\ orders[args.order].items # <<>>
    /\ orders[args.order].tracking_number # Null
    /\ orders[args.order].delivery_date # Null
    /\ \E p \in Products : stock[p] < stock0[p]

\* C30: the notification of a status transition names the old and the new
\* status and carries the tracking number and the delivery date whenever the
\* order has them, whatever the target.
C30_MessageContent ==
    (last.op = "update_order_status" /\ last.result = TRUE)
        => /\ Len(sent) = 1
           /\ sent[1].message.new = args.new_status
           /\ sent[1].message.tracking = orders[args.order].tracking_number
           /\ sent[1].message.delivery = orders[args.order].delivery_date

(* ======================= properties of a dispatch ===================== *)
\* C31: a dispatch calls exactly the observers registered when it began, each
\* once, whatever the observers add to or remove from the list during it.
C31_Snapshot ==
    last.op = "send_order_notification"
        => /\ Len(invoked) = Len(args.began)
           /\ {invoked[i].observer : i \in 1..Len(invoked)}
                = {args.began[i] : i \in 1..Len(args.began)}

(* ======================= properties of a creation ===================== *)
\* C32: an order created with an explicit strategy carries that strategy,
\* whatever the selector would choose for its lines; the selector's choice is
\* taken only when no strategy is passed and select_shipping is on.
C32_StrategyResolution ==
    (last.op = "create_order" /\ last.result = "order")
        => LET o == orders[Len(orders)] IN
           o.shipping_method =
               IF args.shipping_method # NoMethod THEN args.shipping_method
               ELSE IF args.select_shipping
                    THEN get_optimal_shipping_method(o.items)
                    ELSE NoMethod

\* C32 witness: an order with lines was created with select_shipping on and
\* an explicit strategy that is not the selector's choice for it.
C32_Witness ==
    /\ last.op = "create_order"
    /\ last.result = "order"
    /\ args.select_shipping
    /\ args.shipping_method # NoMethod
    /\ orders[1].items # <<>>
    /\ get_optimal_shipping_method(orders[1].items) # args.shipping_method
    /\ orders[1].shipping_method = args.shipping_method

\* C33: create_order with no requested lines returns an order in status
\* CREATED with no lines and subtotal 0, changes no stock count, and the order
\* is appended to the history of its customer.
C33_EmptyRequest ==
    [][(last'.op = "create_order" /\ args'.reqs = <<>>)
        => /\ last'.result = "order"
           /\ Len(orders') = Len(orders) + 1
           /\ orders'[Len(orders')].customer = args'.customer
           /\ orders'[Len(orders')].status = "CREATED"
           /\ orders'[Len(orders')].items = <<>>
           /\ get_subtotal(orders'[Len(orders')].items) = 0
           /\ stock' = stock
           /\ history' = [history EXCEPT ![args'.customer] =
                                Append(@, Len(orders'))]]_vars

\* C33 witness: an order without lines was created for a customer who had an
\* order with a line, and it is the second entry of that customer's history.
C33_Witness ==
    /\ last.op = "create_order"
    /\ last.result = "order"
    /\ args.reqs = <<>>
    /\ Len(orders) = 2
    /\ orders[1].items # <<>>
    /\ orders[2].items = <<>>
    /\ history[args.customer] = <<1, 2>>
    /\ \E p \in Products : stock[p] < stock0[p]

(* ================= properties of calls at the same time =============== *)
\* No thread is inside a call, and some thread has made one.
AllCompleted ==
    /\ \A t \in ThreadIds : threads[t].pc \in {"idle", "done"}
    /\ \E t \in ThreadIds : threads[t].pc = "done"

\* C34: when the concurrent create_order and remove_item calls have all
\* completed, the stock of every product is its initial stock minus the
\* quantities on the lines of the orders; no decrement or increment is lost.
C34_NoLostUpdate ==
    AllCompleted =>
        \A p \in Products : stock[p] = stock0[p] - OnOrders(p, Len(orders))

\* C35: a create_order that fails among concurrent create_order calls asked
\* for more of some product than the initial stock less what the created
\* orders hold; stock that an aborting call held for a while fails no one.
C35_NoFalseFailure ==
    (/\ AllCompleted
     /\ \A t \in ThreadIds : threads[t].call # "remove_item")
        => \A t \in ThreadIds :
            (threads[t].call = "create_order" /\ threads[t].result = "none")
                => \E i \in 1..Len(threads[t].reqs) :
                     LET p == threads[t].reqs[i][1] IN
                     threads[t].reqs[i][2] > stock0[p] - OnOrders(p, Len(orders))

(* ======================= properties of the shipping cost ============== *)
\* C36: the stored shipping cost of an order changes only in a call that
\* assigns it a strategy: add_item, remove_item and update_order_status leave
\* it as it was computed from the lines of the assignment.
C36_CostFrame ==
    [][\A oid \in 1..Len(orders) :
        orders'[oid].shipping_cost # orders[oid].shipping_cost
            => /\ last'.op = "set_shipping_method"
               /\ last'.result # NoMethod]_vars

\* C36 witness: add_item has added a line to an order sent by drone, and the
\* stored cost is not the drone cost of the lines the order has now.
C36_Witness ==
    /\ last.op = "add_item"
    /\ last.result = "True"
    /\ Len(orders) = 1
    /\ Len(orders[1].items) = 2
    /\ orders[1].shipping_method = "Drone"
    /\ orders[1].shipping_cost # calculate_cost("Drone", orders[1].items)

\* C37: an order created with select_shipping off and no strategy has no
\* strategy and shipping cost 0; moving it to SHIPPED succeeds and notifies,
\* and its tracking number and delivery date stay null.
C37_NoStrategy ==
    [][(~args'.select_shipping /\ args'.shipping_method = NoMethod)
        => /\ (last'.op = "create_order" /\ last'.result = "order")
                => /\ orders'[1].shipping_method = NoMethod
                   /\ orders'[1].shipping_cost = 0
           /\ (last'.op = "update_order_status" /\ args'.new_status = "SHIPPED")
                => /\ last'.result = TRUE
                   /\ orders'[args'.order].status = "SHIPPED"
                   /\ Len(sent') = 1
                   /\ sent'[1].order = args'.order
                   /\ orders'[args'.order].tracking_number = Null
                   /\ orders'[args'.order].delivery_date = Null]_vars

\* C37 witness: an order created without a strategy has been moved to SHIPPED
\* from another status, with one notification and no tracking number.
C37_Witness ==
    /\ last.op = "update_order_status"
    /\ last.result = TRUE
    /\ args.new_status = "SHIPPED"
    /\ ~args.select_shipping
    /\ args.shipping_method = NoMethod
    /\ orders[args.order].status = "SHIPPED"
    /\ orders[args.order].shipping_method = NoMethod
    /\ orders[args.order].tracking_number = Null
    /\ Len(sent) = 1
    /\ sent[1].message.old # "SHIPPED"

(* ======================= properties of the quantities ================= *)
\* C38: every line of every order has a quantity above 0, whatever
\* create_order and add_item are asked for, and neither of them ever makes a
\* stock count larger.
C38_PositiveLines ==
    [][/\ \A oid \in 1..Len(orders') :
            \A i \in 1..Len(orders'[oid].items) :
                orders'[oid].items[i].quantity > 0
       /\ last'.op \in {"create_order", "add_item"}
            => \A p \in Products : stock'[p] <= stock[p]]_vars

\* C38 witness: add_item was asked for a quantity that is not positive, on an
\* order that has a line, and raised.
C38_Witness ==
    /\ last.op = "add_item"
    /\ last.result = "ValueError"
    /\ Len(orders) >= 1
    /\ orders[1].items # <<>>
=============================================================================
